---- MODULE Spec2Model ----
(***************************************************************************)
(* A model of src/src/models/match.player.ts: the MatchPlayer class (one   *)
(* player's board, attack history, identity and score) and the helper      *)
(* createPositionDataWithCells.                                            *)
(*                                                                         *)
(* JavaScript objects whose key order matters (board.positions, the ship   *)
(* placement handed to setShipPositionData) are sequences in key order.    *)
(* An optional field (attack.prediction, opts.board, opts.attacks) is a    *)
(* record field that is present or absent.                                 *)
(***************************************************************************)
EXTENDS Integers, Sequences, FiniteSets, TLC

(* ------------------------------ bounds --------------------------------- *)

\* Ship origins and attack origins have coordinates in 0..MaxCoord.
MaxCoord == 1
\* Longest attack history the model records.
MaxAttacks == 3
\* Timestamps (Date.now()) are drawn from 0..MaxTime.
MaxTime == 2
\* The score stays within 0..MaxScore.
MaxScore == 1

(* ------------------- values shared with @app/game/types ---------------- *)

ShipTypes == {"Destroyer", "Submarine"}

ShipSize == [Destroyer |-> 2, Submarine |-> 3]

Orientations == {"horizontal", "vertical"}

Coords == 0..MaxCoord

CellPositions == Coords \X Coords

isSameOrigin(a, b) == a[1] = b[1] /\ a[2] = b[2]

\* The cells a ship of the given size covers: size cells from the origin,
\* along x when horizontal and along y when vertical.
getCellCoverageForOriginOrientationAndArea(origin, orientation, size) ==
  [i \in 1..size |->
     IF orientation = "horizontal"
       THEN <<origin[1] + (i - 1), origin[2]>>
       ELSE <<origin[1], origin[2] + (i - 1)>>]

(* --------------------- createPositionDataWithCells --------------------- *)

\* StoredShipOf asking for the cells of a Destroyer whatever the type.
StoredShipOfDestroyerSize(shipData) ==
  [sunk        |-> FALSE,
   origin      |-> shipData.origin,
   orientation |-> shipData.orientation,
   type        |-> shipData.type,
   cells       |->
     LET cells == getCellCoverageForOriginOrientationAndArea(
                    shipData.origin, shipData.orientation,
                    ShipSize["Destroyer"])
     IN  [i \in DOMAIN cells |->
            [hit |-> FALSE, origin |-> cells[i], type |-> shipData.type]]]

\* One entry of the reduce: the stored ship built for a placement entry.
StoredShipOf(shipData) ==
  [sunk        |-> FALSE,
   origin      |-> shipData.origin,
   orientation |-> shipData.orientation,
   type        |-> shipData.type,
   cells       |->
     LET cells == getCellCoverageForOriginOrientationAndArea(
                    shipData.origin, shipData.orientation,
                    ShipSize[shipData.type])
     IN  [i \in DOMAIN cells |->
            [hit |-> FALSE, origin |-> cells[i], type |-> shipData.type]]]

createPositionDataWithCells(data) ==
  [i \in DOMAIN data |-> StoredShipOf(data[i])]

(* ----------------------------- JS values ------------------------------- *)

\* A JavaScript value as the constructor's score option can hold it.
Num(n) == [t |-> "number", n |-> n]
NaN == [t |-> "NaN", n |-> 0]
Undefined == [t |-> "undefined", n |-> 0]
Null == [t |-> "null", n |-> 0]
\* A string that is not the text of a number.
NonNumericString == [t |-> "string", n |-> 0]

\* The global isNaN: Number(v) is NaN. Number(null) is 0.
isNaN(v) == v.t \in {"NaN", "undefined", "string"}

\* score += amount for a stored score (a number, or null, which adds as 0).
PlusAssign(score, amount) ==
  IF score.t = "number" THEN Num(score.n + amount) ELSE Num(amount)

(* ------------------------------- state --------------------------------- *)

VARIABLES
  uuid,       \* Model.uuid
  username,   \* MatchPlayer.username
  isAi,       \* MatchPlayer.isAi
  match,      \* MatchPlayer.match
  score,      \* MatchPlayer.score
  board,      \* MatchPlayer.board: [valid, positions]
  attacks,    \* MatchPlayer.attacks
  op,         \* the last operation called ("new" after construction)
  arg,        \* its argument
  ret,        \* its return value
  before,     \* what the last operation found: hit cells, attacks with prediction
  sinkCount,  \* per ship type, the destroyed:true results since the board was set
  firedAt,    \* the origins of the attacks recorded on this player so far
  struck      \* the ship cells determineAttackResult was called on since the board was set

vars == <<uuid, username, isAi, match, score, board, attacks, op, arg, ret,
          before, sinkCount, firedAt, struck>>

\* MatchPlayer.toJSON of a player given as a record of its fields.
toJSON(this) ==
  [board    |-> this.board,
   isAi     |-> this.isAi,
   username |-> this.username,
   match    |-> this.match,
   attacks  |-> this.attacks,
   score    |-> this.score,
   uuid     |-> this.uuid]

\* The player in the current state, as a record of its fields.
This ==
  [uuid |-> uuid, username |-> username, isAi |-> isAi, match |-> match,
   score |-> score, board |-> board, attacks |-> attacks]

\* The constructor ignoring opts.board: it always builds the default board.
MatchPlayerFreshBoard(opts, layout) ==
  [uuid     |-> opts.uuid,
   match    |-> opts.match,
   attacks  |-> IF "attacks" \in DOMAIN opts THEN opts.attacks ELSE <<>>,
   score    |-> IF isNaN(opts.score) THEN Num(0) ELSE opts.score,
   username |-> opts.username,
   isAi     |-> opts.isAi,
   board    |-> [valid |-> FALSE,
                 positions |-> createPositionDataWithCells(layout)]]

\* The constructor. layout is what getRandomShipLayout() returns when called.
MatchPlayer(opts, layout) ==
  [uuid     |-> opts.uuid,
   match    |-> opts.match,
   attacks  |-> IF "attacks" \in DOMAIN opts THEN opts.attacks ELSE <<>>,
   score    |-> IF isNaN(opts.score) THEN Num(0) ELSE opts.score,
   username |-> opts.username,
   isAi     |-> opts.isAi,
   board    |-> IF "board" \in DOMAIN opts
                  THEN opts.board
                  ELSE [valid |-> FALSE,
                        positions |-> createPositionDataWithCells(layout)]]

\* MatchPlayer.getScore
getScore(this) == this.score

\* MatchPlayer.from
from(data, layout) == MatchPlayer(data, layout)

(* ------------------------ determineAttackResult ------------------------ *)

\* FindCell comparing the x coordinate alone.
FindCellByColumn(cells, origin) ==
  LET hits == {k \in DOMAIN cells : cells[k].origin[1] = origin[1]}
  IN  IF hits = {} THEN 0 ELSE CHOOSE k \in hits : \A j \in hits : k <= j

\* FindCell passing over the cells that are already hit.
FindUnhitCell(cells, origin) ==
  LET hits == {k \in DOMAIN cells :
                 isSameOrigin(cells[k].origin, origin) /\ ~cells[k].hit}
  IN  IF hits = {} THEN 0 ELSE CHOOSE k \in hits : \A j \in hits : k <= j

\* ship.cells.find((c) => isSameOrigin(c.origin, origin)): the index of the
\* first matching cell, 0 when there is none.
FindCell(cells, origin) ==
  LET hits == {k \in DOMAIN cells : isSameOrigin(cells[k].origin, origin)}
  IN  IF hits = {} THEN 0 ELSE CHOOSE k \in hits : \A j \in hits : k <= j

\* The reduce over ship.cells: every cell is hit.
Destroyed(cells) == \A k \in DOMAIN cells : cells[k].hit

\* FindShip keeping the last match of the loop instead of the first.
FindShipLast(positions, origin) ==
  LET cand == {i \in DOMAIN positions :
                 /\ ~positions[i].sunk
                 /\ FindCell(positions[i].cells, origin) # 0}
  IN  IF cand = {} THEN 0 ELSE CHOOSE i \in cand : \A j \in cand : i >= j

\* FindShip without the sunk test: sunk ships are searched too.
FindShipSunkToo(positions, origin) ==
  LET cand == {i \in DOMAIN positions :
                 FindCell(positions[i].cells, origin) # 0}
  IN  IF cand = {} THEN 0 ELSE CHOOSE i \in cand : \A j \in cand : i <= j

\* The ship the loop stops at: the first ship in key order that is not sunk
\* and has a cell at origin; 0 when the loop runs to its end.
FindShip(positions, origin) ==
  LET cand == {i \in DOMAIN positions :
                 /\ ~positions[i].sunk
                 /\ FindCell(positions[i].cells, origin) # 0}
  IN  IF cand = {} THEN 0 ELSE CHOOSE i \in cand : \A j \in cand : i <= j

\* HitShip flipping the cell's flag instead of setting it.
HitShipToggles(ship, k) ==
  LET cells == [ship.cells EXCEPT ![k].hit = ~@]
  IN  [ship EXCEPT !.cells = cells,
                   !.sunk = IF \A n \in DOMAIN cells : cells[n].hit
                              THEN TRUE ELSE @]

\* HitShip without the sunk update: the cell is marked and nothing else.
HitShipNeverSinks(ship, k) ==
  [ship EXCEPT !.cells = [ship.cells EXCEPT ![k].hit = TRUE]]

\* The ship after hitCell.hit = true and the sunk update.
HitShip(ship, k) ==
  LET cells == [ship.cells EXCEPT ![k].hit = TRUE]
  IN  [ship EXCEPT !.cells = cells,
                   !.sunk = IF Destroyed(cells) THEN TRUE ELSE @]

\* The value determineAttackResult returns for positions as they are
\* before the call.
AttackResultOf(positions, origin) ==
  LET i == FindShip(positions, origin)
  IN  IF i = 0
        THEN [hit |-> FALSE, origin |-> origin]
        ELSE LET k    == FindCell(positions[i].cells, origin)
                 ship == HitShip(positions[i], k)
             IN  [hit       |-> TRUE,
                  origin    |-> ship.cells[k].origin,
                  type      |-> ship.cells[k].type,
                  destroyed |-> Destroyed(ship.cells)]

\* determineAttackResult marking a copy: the stored positions stay as they are.
PositionsAfterAttackOnCopy(positions, origin) == positions

\* The positions after determineAttackResult.
PositionsAfterAttack(positions, origin) ==
  LET i == FindShip(positions, origin)
  IN  IF i = 0
        THEN positions
        ELSE [positions EXCEPT
                ![i] = HitShip(@, FindCell(positions[i].cells, origin))]

(* --------------------------- toOpponentJSON ---------------------------- *)

\* DeletePrediction deleting nothing.
DeletePredictionKept(attack) == attack

\* delete a.attack.prediction
DeletePrediction(attack) ==
  IF "prediction" \in DOMAIN attack THEN [origin |-> attack.origin] ELSE attack

\* The stored attacks after the map callback has run on every record.
AttacksAfterOpponentJSON(atks) ==
  [i \in DOMAIN atks |->
     [atks[i] EXCEPT !.attack = DeletePrediction(@)]]

\* The records the map returns. atk = {...a} copies the record but shares
\* its attack object, so the delete shows in the copy too.
OpponentAttacks(atks) ==
  [i \in DOMAIN atks |->
     [ts     |-> atks[i].ts,
      attack |-> DeletePrediction(atks[i].attack),
      result |-> atks[i].result]]

\* OpponentPositions without the sunk test: every ship is revealed.
OpponentPositionsAll(positions) == positions

\* board.positions of the opponent view: the sunk ships, in key order.
OpponentPositions(positions) ==
  SelectSeq(positions, LAMBDA ship : ship.sunk)

(* -------------------- queries on the attack history -------------------- *)

\* hasAttackedLocation comparing the x coordinate alone.
hasAttackedColumn(atks, origin) ==
  \E i \in DOMAIN atks : atks[i].attack.origin[1] = origin[1]

\* !!this.attacks.find((a) => isSameOrigin(a.attack.origin, origin))
hasAttackedLocation(atks, origin) ==
  \E i \in DOMAIN atks : isSameOrigin(atks[i].attack.origin, origin)

\* this.attacks.length
getShotsFiredCount(atks) == Len(atks)

(* ----------------------- getContinuousHitsCount ------------------------ *)

\* SortedOrders with the comparison turned round: oldest first.
OldestFirstOrders(atks) ==
  {p \in [DOMAIN atks -> DOMAIN atks] :
     /\ \A i, j \in DOMAIN atks : i # j => p[i] # p[j]
     /\ \A i, j \in DOMAIN atks : i < j => atks[p[i]].ts <= atks[p[j]].ts}

\* The orders sort((a, b) => (a.ts > b.ts ? -1 : 1)) can leave a copy of the
\* attacks in: most recent first. The comparator never answers 0, so records
\* with equal timestamps may end in either order.
SortedOrders(atks) ==
  {p \in [DOMAIN atks -> DOMAIN atks] :
     /\ \A i, j \in DOMAIN atks : i # j => p[i] # p[j]
     /\ \A i, j \in DOMAIN atks : i < j => atks[p[i]].ts >= atks[p[j]].ts}

\* The loop: count hits from the front, break at the first miss.
RECURSIVE CountLeadingHits(_)
CountLeadingHits(s) ==
  IF s = <<>> THEN 0
  ELSE IF s[1].result.hit THEN 1 + CountLeadingHits(Tail(s))
  ELSE 0

(* ------------------------------- inputs -------------------------------- *)

\* A placement entry for one ship type.
Placements(type) ==
  {[type |-> type, origin |-> o, orientation |-> d] :
     o \in CellPositions, d \in Orientations}

\* Every placement of one ship beside a fixed placement of the other. The
\* Destroyer comes first in key order in the first half, the Submarine in
\* the second.
FixedSubmarine ==
  [type |-> "Submarine", origin |-> <<0, 0>>, orientation |-> "vertical"]
FixedDestroyer ==
  [type |-> "Destroyer", origin |-> <<1, 1>>, orientation |-> "horizontal"]
StarLayouts ==
  {<<a, FixedSubmarine>> : a \in Placements("Destroyer")}
  \cup {<<b, FixedDestroyer>> : b \in Placements("Submarine")}

\* Ships apart, and ships sharing the cell <<0, 0>>.
ApartLayout ==
  <<[type |-> "Destroyer", origin |-> <<0, 0>>, orientation |-> "horizontal"],
    [type |-> "Submarine", origin |-> <<0, 1>>, orientation |-> "horizontal"]>>
CrossLayout ==
  <<[type |-> "Destroyer", origin |-> <<0, 0>>, orientation |-> "horizontal"],
    [type |-> "Submarine", origin |-> <<0, 0>>, orientation |-> "vertical"]>>
SomeLayouts == {ApartLayout, CrossLayout}

\* An attack can land on any cell a ship can cover, and next to it.
LongestShip == CHOOSE n \in {ShipSize[t] : t \in ShipTypes} :
                 \A t \in ShipTypes : ShipSize[t] <= n
AttackCoords == 0..(MaxCoord + LongestShip - 1)
AttackOrigins == AttackCoords \X AttackCoords

\* AttackDataPayload: an origin and, optionally, prediction data.
Payloads(origins) ==
  {[origin |-> o] : o \in origins}
  \cup {[origin |-> o, prediction |-> "p"] : o \in origins}

\* The AttackResult values an opponent's determineAttackResult gives for an
\* attack at origin: a miss, a hit, a hit that destroys.
ResultsAt(origin) ==
  {[hit |-> FALSE, origin |-> origin]}
  \cup {[hit |-> TRUE, origin |-> origin, type |-> "Destroyer", destroyed |-> d] :
          d \in BOOLEAN}

Times == 0..MaxTime

NoSinks == [t \in ShipTypes |-> 0]

\* The number of cells of the board that are hit.
RECURSIVE SumSeq(_)
SumSeq(s) == IF s = <<>> THEN 0 ELSE s[1] + SumSeq(Tail(s))
HitCount(positions) ==
  SumSeq([i \in DOMAIN positions |->
            Cardinality({k \in DOMAIN positions[i].cells :
                           positions[i].cells[k].hit})])

\* The number of stored attacks that carry prediction data.
PredictionCount(atks) ==
  Cardinality({i \in DOMAIN atks : "prediction" \in DOMAIN atks[i].attack})

\* Every cell position some ship of the positions covers.
ShipCells(positions) ==
  UNION {{positions[i].cells[k].origin : k \in DOMAIN positions[i].cells} :
           i \in DOMAIN positions}

Found ==
  [hits |-> HitCount(board.positions), predictions |-> PredictionCount(attacks)]

(* ------------------------------- actions ------------------------------- *)

\* new MatchPlayer(opts), the first operation on a player.
New(opts, layout) ==
  LET p == MatchPlayer(opts, layout)
  IN  /\ uuid = p.uuid /\ username = p.username /\ isAi = p.isAi
      /\ match = p.match /\ score = p.score /\ board = p.board
      /\ attacks = p.attacks
      /\ op = "new" /\ arg = opts /\ ret = Undefined
      /\ before = [hits |-> 0, predictions |-> 0]
      /\ sinkCount = NoSinks
      /\ firedAt = {p.attacks[i].attack.origin : i \in DOMAIN p.attacks}
      /\ struck = {}

\* MatchPlayer.from(this.toJSON()): the player is stored and rehydrated.
From(layout) ==
  LET p == from(toJSON(This), layout)
  IN  /\ uuid' = p.uuid /\ username' = p.username /\ isAi' = p.isAi
      /\ match' = p.match /\ score' = p.score /\ board' = p.board
      /\ attacks' = p.attacks
      /\ op' = "from" /\ arg' = toJSON(This) /\ ret' = Undefined
      /\ before' = Found
      /\ UNCHANGED <<sinkCount, firedAt, struck>>

SetMatchInstanceUUID(id) ==
  /\ match' = id
  /\ op' = "setMatchInstanceUUID" /\ arg' = id /\ ret' = Undefined
  /\ before' = Found
  /\ UNCHANGED <<uuid, username, isAi, score, board, attacks, sinkCount, firedAt, struck>>

GetContinuousHitsCount ==
  /\ \E p \in SortedOrders(attacks) :
       ret' = CountLeadingHits([i \in DOMAIN attacks |-> attacks[p[i]]])
  /\ op' = "getContinuousHitsCount" /\ arg' = Undefined
  /\ before' = Found
  /\ UNCHANGED <<uuid, username, isAi, match, score, board, attacks, sinkCount, firedAt, struck>>

IncrementScoreBy(amount) ==
  /\ score' = PlusAssign(score, amount)
  /\ op' = "incrementScoreBy" /\ arg' = amount /\ ret' = score'
  /\ before' = Found
  /\ UNCHANGED <<uuid, username, isAi, match, board, attacks, sinkCount, firedAt, struck>>

\* setShipPositionData keeping the old valid flag.
SetShipPositionDataKeepsValid(data, valid) ==
  /\ board' = [valid |-> board.valid,
               positions |-> createPositionDataWithCells(data)]
  /\ op' = "setShipPositionData" /\ arg' = <<data, valid>> /\ ret' = Undefined
  /\ before' = Found
  /\ sinkCount' = NoSinks
  /\ struck' = {}
  /\ UNCHANGED <<uuid, username, isAi, match, score, attacks, firedAt>>

SetShipPositionData(data, valid) ==
  /\ board' = [valid |-> valid, positions |-> createPositionDataWithCells(data)]
  /\ op' = "setShipPositionData" /\ arg' = <<data, valid>> /\ ret' = Undefined
  /\ before' = Found
  /\ sinkCount' = NoSinks
  /\ struck' = {}
  /\ UNCHANGED <<uuid, username, isAi, match, score, attacks, firedAt>>

\* determineAttackResult that also stores the attack in this.attacks.
DetermineAttackResultStored(attack) ==
  /\ board' = [board EXCEPT
       !.positions = PositionsAfterAttack(board.positions, attack.origin)]
  /\ ret' = AttackResultOf(board.positions, attack.origin)
  /\ attacks' = Append(attacks, [ts |-> 0, attack |-> attack, result |-> ret'])
  /\ op' = "determineAttackResult" /\ arg' = attack
  /\ before' = Found
  /\ sinkCount' =
       IF ret'.hit /\ ret'.destroyed /\ sinkCount[ret'.type] < 2
         THEN [sinkCount EXCEPT ![ret'.type] = @ + 1]
         ELSE sinkCount
  /\ struck' = struck \cup ({attack.origin} \cap ShipCells(board.positions))
  /\ UNCHANGED <<uuid, username, isAi, match, score, firedAt>>

DetermineAttackResult(attack) ==
  /\ board' = [board EXCEPT
       !.positions = PositionsAfterAttack(board.positions, attack.origin)]
  /\ ret' = AttackResultOf(board.positions, attack.origin)
  /\ op' = "determineAttackResult" /\ arg' = attack
  /\ before' = Found
  /\ sinkCount' =
       IF ret'.hit /\ ret'.destroyed /\ sinkCount[ret'.type] < 2
         THEN [sinkCount EXCEPT ![ret'.type] = @ + 1]
         ELSE sinkCount
  /\ struck' = struck \cup ({attack.origin} \cap ShipCells(board.positions))
  /\ UNCHANGED <<uuid, username, isAi, match, score, attacks, firedAt>>

\* recordAttackResult that skips an origin already attacked.
RecordAttackResultOnce(attack, result, ts) ==
  /\ attacks' = IF hasAttackedLocation(attacks, attack.origin)
                  THEN attacks
                  ELSE Append(attacks,
                              [ts |-> ts, attack |-> attack, result |-> result])
  /\ op' = "recordAttackResult" /\ arg' = <<attack, result>> /\ ret' = Undefined
  /\ before' = Found
  /\ firedAt' = firedAt \cup {attack.origin}
  /\ UNCHANGED <<uuid, username, isAi, match, score, board, sinkCount, struck>>

\* ts is what Date.now() answers: the wall clock, which may repeat a value
\* or step back.
RecordAttackResult(attack, result, ts) ==
  /\ attacks' = Append(attacks, [ts |-> ts, attack |-> attack, result |-> result])
  /\ op' = "recordAttackResult" /\ arg' = <<attack, result>> /\ ret' = Undefined
  /\ before' = Found
  /\ firedAt' = firedAt \cup {attack.origin}
  /\ UNCHANGED <<uuid, username, isAi, match, score, board, sinkCount, struck>>

ToOpponentJSON ==
  /\ attacks' = AttacksAfterOpponentJSON(attacks)
  /\ ret' = [username |-> username,
             attacks  |-> OpponentAttacks(attacks),
             board    |-> [valid     |-> board.valid,
                           positions |-> OpponentPositions(board.positions)]]
  /\ op' = "toOpponentJSON" /\ arg' = Undefined
  /\ before' = Found
  /\ UNCHANGED <<uuid, username, isAi, match, score, board, sinkCount,
                 firedAt, struck>>

\* toJSON(): the player's data, read and returned.
ToJSON ==
  /\ ret' = toJSON(This)
  /\ op' = "toJSON" /\ arg' = Undefined
  /\ before' = Found
  /\ UNCHANGED <<uuid, username, isAi, match, score, board, attacks, sinkCount,
                 firedAt, struck>>

(* ---------------------------- specifications --------------------------- *)

Scores == {Num(0), NaN, Undefined, Null, NonNumericString}

Opts ==
  {[uuid |-> "u1", username |-> "alice", isAi |-> TRUE, match |-> "m1",
    score |-> sc] : sc \in Scores}

PlainOpts ==
  [uuid |-> "u1", username |-> "alice", isAi |-> TRUE, match |-> "m1",
   score |-> Num(0)]

\* The whole player, every operation, on a few boards and a short history.
PlayerAttackOrigins == {<<0, 0>>, <<1, 0>>, <<3, 3>>}
PlayerMaxAttacks == 2

Init == \E opts \in Opts, layout \in SomeLayouts : New(opts, layout)

Next ==
  \/ From(ApartLayout)
  \/ SetMatchInstanceUUID("m2")
  \/ GetContinuousHitsCount
  \/ \E amount \in {-1, 1} :
       /\ PlusAssign(score, amount).n \in 0..MaxScore
       /\ IncrementScoreBy(amount)
  \/ \E data \in SomeLayouts, valid \in BOOLEAN : SetShipPositionData(data, valid)
  \/ \E origin \in PlayerAttackOrigins : DetermineAttackResult([origin |-> origin])
  \/ /\ Len(attacks) < PlayerMaxAttacks
     /\ \E attack \in Payloads({<<0, 0>>}) :
          \E result \in {r \in ResultsAt(attack.origin) : ~r.hit \/ ~r.destroyed} :
            RecordAttackResult(attack, result, 0)
  \/ ToOpponentJSON
  \/ ToJSON

Spec == Init /\ [][Next]_vars

\* The board alone, on many placements and every attack origin.
InitBoard == \E layout \in StarLayouts : New(PlainOpts, layout)

NextBoard ==
  \/ \E data \in StarLayouts : SetShipPositionData(data, TRUE)
  \/ \E origin \in AttackOrigins : DetermineAttackResult([origin |-> origin])
  \/ ToOpponentJSON

SpecBoard == InitBoard /\ [][NextBoard]_vars

\* The attack history alone, on every order of timestamps.
HistoryOrigins == {<<0, 0>>, <<1, 0>>}

InitHistory == New(PlainOpts, ApartLayout)

NextHistory ==
  \/ /\ Len(attacks) < MaxAttacks
     /\ \E origin \in HistoryOrigins, ts \in Times :
          \E result \in {r \in ResultsAt(origin) : ~r.hit \/ ~r.destroyed} :
            RecordAttackResult([origin |-> origin], result, ts)
  \/ GetContinuousHitsCount

SpecHistory == InitHistory /\ [][NextHistory]_vars

\* A player built from stored data: the board and the attacks are supplied,
\* as MatchPlayer.from does with a cache entry. A cache entry need not have
\* been written by this class, so a ship may carry too few or too many cells.
StoredPositions == createPositionDataWithCells(ApartLayout)

ShortDestroyer ==
  [StoredPositions[1] EXCEPT !.cells = SubSeq(@, 1, 1)]

LongDestroyer ==
  [StoredPositions[1] EXCEPT
     !.cells = Append(@, [hit |-> FALSE, origin |-> <<2, 0>>, type |-> "Destroyer"])]

StoredBoards ==
  {[valid |-> TRUE, positions |-> StoredPositions],
   [valid |-> TRUE, positions |-> [StoredPositions EXCEPT ![1] = ShortDestroyer]],
   [valid |-> TRUE, positions |-> [StoredPositions EXCEPT ![1] = LongDestroyer]]}

StoredAttacks ==
  {<<>>,
   <<[ts |-> 0, attack |-> [origin |-> <<0, 0>>],
      result |-> [hit |-> FALSE, origin |-> <<0, 0>>]]>>}

StoredOpts ==
  {[uuid |-> "u1", username |-> "alice", isAi |-> TRUE, match |-> "m1",
    score |-> Num(0), board |-> b, attacks |-> a] :
     b \in StoredBoards, a \in StoredAttacks}

InitStored == \E opts \in StoredOpts : New(opts, ApartLayout)

NextStored ==
  \/ \E origin \in AttackOrigins : DetermineAttackResult([origin |-> origin])
  \/ ToOpponentJSON
  \/ From(ApartLayout)

SpecStored == InitStored /\ [][NextStored]_vars

(* ------------------------------- claims -------------------------------- *)

\* The ships of the board, as a set of indices in key order.
Ships == DOMAIN board.positions

\* The cell positions a stored ship covers.
CellsOf(ship) == {ship.cells[k].origin : k \in DOMAIN ship.cells}

AllCellsHit(ship) == \A k \in DOMAIN ship.cells : ship.cells[k].hit = TRUE

\* No two ships of the board share a cell.
NonOverlapping(positions) ==
  \A i, j \in DOMAIN positions :
    i # j => CellsOf(positions[i]) \cap CellsOf(positions[j]) = {}

\* C1: in every reachable state, for every ship on the board, sunk is true
\* if and only if every cell of the ship is hit.
C1_SunkIffAllCellsHit ==
  \A i \in Ships : board.positions[i].sunk <=> AllCellsHit(board.positions[i])

\* C1 witness: after an attack, one ship is sunk and another is hit but afloat.
C1_Witness ==
  /\ op = "determineAttackResult"
  /\ \E i, j \in Ships :
       /\ board.positions[i].sunk
       /\ ~board.positions[j].sunk
       /\ \E k \in DOMAIN board.positions[j].cells : board.positions[j].cells[k].hit

\* The ship types the opponent view reveals.
RevealedTypes(view) ==
  {view.board.positions[i].type : i \in DOMAIN view.board.positions}

\* C2: the positions toOpponentJSON returns hold an entry for a ship type if
\* and only if that ship is sunk on the board, and every entry is a sunk ship
\* of the board, so no unsunk ship's origin or cells are in the view.
C2_OpponentSeesOnlySunkShips ==
  op = "toOpponentJSON" =>
    /\ \A t \in ShipTypes :
         t \in RevealedTypes(ret) <=>
           \E i \in Ships : board.positions[i].type = t /\ board.positions[i].sunk
    /\ \A e \in DOMAIN ret.board.positions :
         \E i \in Ships :
           board.positions[i].sunk /\ ret.board.positions[e] = board.positions[i]

\* C2 witness: an opponent view of a board with one ship sunk and another
\* hit but afloat.
C2_Witness ==
  /\ op = "toOpponentJSON"
  /\ Len(ret.board.positions) = 1
  /\ \E j \in Ships :
       /\ ~board.positions[j].sunk
       /\ \E k \in DOMAIN board.positions[j].cells : board.positions[j].cells[k].hit

\* C3: toOpponentJSON leaves what toJSON shows (attacks with their
\* prediction fields, board, score) as it was before the call.
C3_OpponentJSONMutatesNothing ==
  [][op' = "toOpponentJSON" => toJSON(This)' = toJSON(This)]_vars

\* No ship of the positions, sunk or not, has a cell at origin.
NoShipAt(positions, origin) ==
  \A i \in DOMAIN positions : origin \notin CellsOf(positions[i])

\* C4: determineAttackResult with an origin that is no cell of any ship
\* returns {hit: false, origin} and changes no cell, no ship and nothing else
\* of the player.
C4_MissChangesNothing ==
  [][(op' = "determineAttackResult" /\ NoShipAt(board.positions, arg'.origin))
       => /\ ret' = [hit |-> FALSE, origin |-> arg'.origin]
          /\ toJSON(This)' = toJSON(This)]_vars

\* C4 witness: a miss on open water, on a board that has hit cells.
C4_Witness ==
  /\ op = "determineAttackResult"
  /\ NoShipAt(board.positions, arg.origin)
  /\ ret.hit = FALSE
  /\ before.hits > 0

\* The unhit cells of a ship.
UnhitCells(ship) ==
  {ship.cells[k].origin : k \in {n \in DOMAIN ship.cells : ~ship.cells[n].hit}}

\* C5: on a board with non-overlapping ships, an attack on the last unhit
\* cell of a ship returns hit: true, destroyed: true, and once a ship has
\* given a destroyed: true result every attack on one of its cells returns
\* hit: false, until the board is set again.
C5_LastCellDestroysThenMisses ==
  [][(op' = "determineAttackResult" /\ NonOverlapping(board.positions))
       => \A i \in Ships :
            /\ UnhitCells(board.positions[i]) = {arg'.origin}
                 => /\ ret'.hit = TRUE
                    /\ ret'.destroyed = TRUE
                    /\ ret'.type = board.positions[i].type
            /\ (/\ sinkCount[board.positions[i].type] >= 1
                /\ arg'.origin \in CellsOf(board.positions[i]))
                 => ret'.hit = FALSE]_vars

\* C5 witness: an attack on a cell of a ship that was destroyed earlier, on a
\* board with non-overlapping ships, answered with a miss.
C5_Witness ==
  /\ op = "determineAttackResult"
  /\ NonOverlapping(board.positions)
  /\ ret.hit = FALSE
  /\ \E i \in Ships :
       /\ arg.origin \in CellsOf(board.positions[i])
       /\ sinkCount[board.positions[i].type] = 1

\* C6: MatchPlayer.from(p.toJSON()).toJSON() equals p.toJSON(): uuid,
\* username, isAi, match, score, board and attacks are all preserved.
C6_RoundTrip ==
  op = "from" => toJSON(This) = arg

\* C6 witness: a rehydrated player with a hit cell, a recorded attack that
\* carries prediction data, a changed match and a score that is not 0.
C6_Witness ==
  /\ op = "from"
  /\ before.hits > 0
  /\ before.predictions > 0
  /\ match = "m2"
  /\ score = Num(1)
  /\ board.valid

\* Whether the timestamps of the attacks are pairwise distinct.
DistinctTimestamps(atks) ==
  \A i, j \in DOMAIN atks : i # j => atks[i].ts # atks[j].ts

\* The run of hits that ends at the attack with the greatest timestamp,
\* followed back in time.
RECURSIVE LatestRun(_)
LatestRun(recs) ==
  IF recs = {} THEN 0
  ELSE LET last == CHOOSE r \in recs : \A q \in recs : q.ts <= r.ts
       IN  IF last.result.hit THEN 1 + LatestRun(recs \ {last}) ELSE 0

\* C7: with pairwise distinct timestamps, getContinuousHitsCount returns the
\* length of the run of hits that ends at the most recent attack (0 with no
\* attacks or a most recent miss), and it leaves the stored attacks in place.
C7_ContinuousHitsCount ==
  [][op' = "getContinuousHitsCount"
       => /\ attacks' = attacks
          /\ DistinctTimestamps(attacks)
               => ret' = LatestRun({attacks[i] : i \in DOMAIN attacks})]_vars

\* C7 witness: three attacks stored out of time order, the two most recent
\* hits and the oldest a miss, counted as 2.
C7_Witness ==
  /\ op = "getContinuousHitsCount"
  /\ Len(attacks) = 3
  /\ DistinctTimestamps(attacks)
  /\ attacks[1].ts > attacks[2].ts
  /\ attacks[3].ts > attacks[1].ts
  /\ ~attacks[2].result.hit
  /\ ret = 2

\* C8: every ship of a board built by construction or setShipPositionData
\* has ShipSize[type] cells, the first at its origin, each next one a step
\* further along x when horizontal and along y when vertical.
C8_CellsMatchPlacement ==
  \A i \in Ships :
    LET ship == board.positions[i]
    IN  /\ Len(ship.cells) = ShipSize[ship.type]
        /\ ship.cells[1].origin = ship.origin
        /\ \A k \in 1..(Len(ship.cells) - 1) :
             ship.cells[k + 1].origin =
               IF ship.orientation = "horizontal"
                 THEN <<ship.cells[k].origin[1] + 1, ship.cells[k].origin[2]>>
                 ELSE <<ship.cells[k].origin[1], ship.cells[k].origin[2] + 1>>

\* C8 witness: a board just set with one horizontal and one vertical ship.
C8_Witness ==
  /\ op = "setShipPositionData"
  /\ \E i, j \in Ships :
       /\ board.positions[i].orientation = "horizontal"
       /\ board.positions[j].orientation = "vertical"

\* C9: after setShipPositionData(data, valid), and after construction
\* without a board, the board holds the ship types of the placement, no ship
\* is sunk, no cell is hit, and valid is the flag given (false when
\* constructed).
C9_BoardIsFresh ==
  /\ op = "setShipPositionData" =>
       /\ Len(board.positions) = Len(arg[1])
       /\ \A i \in Ships : board.positions[i].type = arg[1][i].type
       /\ board.valid = arg[2]
  /\ op = "new" => board.valid = FALSE
  /\ op \in {"setShipPositionData", "new"} =>
       /\ {board.positions[i].type : i \in Ships} = ShipTypes
       /\ \A i \in Ships :
            /\ board.positions[i].sunk = FALSE
            /\ UnhitCells(board.positions[i]) = CellsOf(board.positions[i])
            /\ \A k \in DOMAIN board.positions[i].cells :
                 board.positions[i].cells[k].hit = FALSE

\* C9 witness: a board set as valid over one that had a sunk ship.
C9_Witness ==
  /\ op = "setShipPositionData"
  /\ before.hits >= 2
  /\ arg[2] = TRUE
  /\ board.valid

\* C10: the attacks toOpponentJSON returns are the recorded attacks in
\* length and order, each with its ts, origin and result, and none carries
\* a prediction field.
C10_OpponentAttacksStripped ==
  [][op' = "toOpponentJSON"
       => /\ Len(ret'.attacks) = Len(attacks)
          /\ \A i \in DOMAIN attacks :
               /\ ret'.attacks[i].ts = attacks[i].ts
               /\ ret'.attacks[i].attack.origin = attacks[i].attack.origin
               /\ ret'.attacks[i].result = attacks[i].result
               /\ "prediction" \notin DOMAIN ret'.attacks[i].attack]_vars

\* C10 witness: an opponent view of two attacks, recorded with prediction
\* data, a miss and then a hit.
C10_Witness ==
  /\ op = "toOpponentJSON"
  /\ before.predictions = 2
  /\ Len(ret.attacks) = 2
  /\ ~ret.attacks[1].result.hit
  /\ ret.attacks[2].result.hit

\* C11: in every reachable state and for every origin, hasAttackedLocation
\* is true if and only if an attack with that origin was recorded on this
\* player (by recordAttackResult, or in the records it was built from).
C11_AttackedIffRecorded ==
  \A origin \in AttackOrigins :
    hasAttackedLocation(attacks, origin) <=> origin \in firedAt

\* C11 witness: two attacks recorded at one origin, none at another.
C11_Witness ==
  /\ op = "recordAttackResult"
  /\ Len(attacks) = 2
  /\ firedAt = {<<1, 0>>}
  /\ hasAttackedLocation(attacks, <<1, 0>>)
  /\ ~hasAttackedLocation(attacks, <<0, 0>>)

\* C12: each recordAttackResult adds one record, with the attack and the
\* result given, at the end of attacks and leaves the earlier records as
\* they were, also when the origin was attacked before; getShotsFiredCount
\* grows by one.
C12_RecordAppendsOne ==
  [][op' = "recordAttackResult"
       => /\ getShotsFiredCount(attacks') = getShotsFiredCount(attacks) + 1
          /\ SubSeq(attacks', 1, Len(attacks)) = attacks
          /\ attacks'[Len(attacks')].attack = arg'[1]
          /\ attacks'[Len(attacks')].result = arg'[2]]_vars

\* C12 witness: a third record, at an origin the first record already has.
C12_Witness ==
  /\ op = "recordAttackResult"
  /\ getShotsFiredCount(attacks) = 3
  /\ attacks[3].attack.origin = attacks[1].attack.origin
  /\ attacks[3].result # attacks[1].result

\* C13: a player constructed with a missing or malformed score (undefined,
\* null, NaN, a non-numeric value) has getScore() and toJSON().score equal
\* to 0; a numeric score is kept as given.
C13_MalformedScoreBecomesZero ==
  op = "new" =>
    LET expected == IF arg.score.t = "number" THEN arg.score ELSE Num(0)
    IN  /\ getScore(This) = expected
        /\ toJSON(This).score = expected

\* C14: a ship whose cell count differs from ShipSize of its type is never
\* accepted as part of a player's board (construction reports an invalid
\* state instead).
C14_NoMiscountedShipAccepted ==
  \A i \in Ships :
    Len(board.positions[i].cells) = ShipSize[board.positions[i].type]

\* The ships that are not sunk and have a cell at origin that is hit.
HitAfloatAt(positions, origin) ==
  {i \in DOMAIN positions :
     /\ ~positions[i].sunk
     /\ \E k \in DOMAIN positions[i].cells :
          /\ positions[i].cells[k].origin = origin
          /\ positions[i].cells[k].hit}

\* C15: an attack on an already-hit cell of a ship that is not sunk returns
\* hit: true again, with destroyed the all-cells-hit value of that ship
\* (false, as another cell is unhit), and leaves the board as it was.
C15_RepeatedHitChangesNothing ==
  [][(op' = "determineAttackResult"
        /\ HitAfloatAt(board.positions, arg'.origin) # {})
       => /\ ret'.hit = TRUE
          /\ ret'.origin = arg'.origin
          /\ \E i \in HitAfloatAt(board.positions, arg'.origin) :
               /\ ret'.type = board.positions[i].type
               /\ ret'.destroyed = AllCellsHit(board.positions[i])
          /\ ret'.destroyed = FALSE
          /\ board' = board]_vars

\* C15 witness: a hit that is not the first on its cell: the attack found
\* as many hit cells as it left, on a ship still afloat.
C15_Witness ==
  /\ op = "determineAttackResult"
  /\ ret.hit = TRUE
  /\ ret.destroyed = FALSE
  /\ before.hits = HitCount(board.positions)
  /\ arg.origin \in struck

\* C16: board.valid changes through setShipPositionData alone:
\* determineAttackResult, recordAttackResult, incrementScoreBy,
\* toOpponentJSON and toJSON leave it as it is; determineAttackResult leaves
\* attacks and score as they are; recordAttackResult and incrementScoreBy
\* leave the board as it is.
C16_FrameOfTheOperations ==
  [][/\ board'.valid # board.valid => op' = "setShipPositionData"
     /\ op' \in {"determineAttackResult", "recordAttackResult",
                 "incrementScoreBy", "toOpponentJSON", "toJSON"}
          => board'.valid = board.valid
     /\ op' = "determineAttackResult" => attacks' = attacks /\ score' = score
     /\ op' \in {"recordAttackResult", "incrementScoreBy"} => board' = board]_vars

\* C16 witness: a hit on a board set as valid, of a player with a recorded
\* attack and a score of 1.
C16_Witness ==
  /\ op = "determineAttackResult"
  /\ ret.hit = TRUE
  /\ board.valid = TRUE
  /\ Len(attacks) > 0
  /\ score = Num(1)

\* The ships that are not sunk and have a cell at origin.
AfloatAt(positions, origin) ==
  {i \in DOMAIN positions :
     ~positions[i].sunk /\ origin \in CellsOf(positions[i])}

\* C17: on any board, overlapping ships included, determineAttackResult
\* returns hit: true if and only if a ship that is not sunk has a cell at the
\* origin; on a hit the cell at the origin of the first such ship in key
\* order has its hit flag set, and no other cell of any ship changes.
C17_HitsFirstShipAfloat ==
  [][op' = "determineAttackResult"
       => LET afloat == AfloatAt(board.positions, arg'.origin)
          IN  /\ ret'.hit <=> afloat # {}
              /\ afloat = {} => board' = board
              /\ afloat # {} =>
                   LET first == CHOOSE i \in afloat : \A j \in afloat : i <= j
                   IN  /\ Len(board'.positions) = Len(board.positions)
                       /\ \A i \in Ships :
                            /\ Len(board'.positions[i].cells)
                                 = Len(board.positions[i].cells)
                            /\ \A k \in DOMAIN board.positions[i].cells :
                                 board'.positions[i].cells[k] =
                                   IF i = first
                                      /\ board.positions[i].cells[k].origin
                                           = arg'.origin
                                     THEN [board.positions[i].cells[k]
                                             EXCEPT !.hit = TRUE]
                                     ELSE board.positions[i].cells[k]]_vars

\* C17 witness: a hit on a cell two ships afloat share: the first ship's
\* cell is hit, the second ship's is not.
C17_Witness ==
  /\ op = "determineAttackResult"
  /\ ret.hit = TRUE
  /\ \E i, j \in Ships :
       /\ i < j
       /\ ~board.positions[i].sunk
       /\ \E k \in DOMAIN board.positions[i].cells :
            /\ board.positions[i].cells[k].origin = arg.origin
            /\ board.positions[i].cells[k].hit
       /\ \E k \in DOMAIN board.positions[j].cells :
            /\ board.positions[j].cells[k].origin = arg.origin
            /\ ~board.positions[j].cells[k].hit

\* C18: with no setShipPositionData in between, each ship gives a
\* destroyed: true result at most once, so there are never more such
\* results than ships, and a result is destroyed: true for a ship on the
\* very call that turns the ship's sunk flag from false to true.
C18_DestroyedOncePerShip ==
  [][op' = "determineAttackResult"
       => /\ \A t \in ShipTypes : sinkCount'[t] <= 1
          /\ \A i \in Ships :
               (ret'.hit /\ ret'.destroyed
                  /\ ret'.type = board.positions[i].type)
               <=> (~board.positions[i].sunk /\ board'.positions[i].sunk)]_vars

\* C18 witness: the attack that destroys the second ship of the board.
C18_Witness ==
  /\ op = "determineAttackResult"
  /\ ret.hit = TRUE
  /\ ret.destroyed = TRUE
  /\ \A t \in ShipTypes : sinkCount[t] = 1

\* The ship types an opponent view of the positions reveals.
ViewTypes(positions) ==
  {OpponentPositions(positions)[e].type :
     e \in DOMAIN OpponentPositions(positions)}

\* C19: no operation other than setShipPositionData turns a cell's hit flag
\* or a ship's sunk flag from true to false, so a ship the opponent view
\* reveals stays revealed until the board is set again.
C19_HitAndSunkStay ==
  [][op' # "setShipPositionData"
       => /\ Len(board'.positions) = Len(board.positions)
          /\ \A i \in Ships :
               /\ board.positions[i].sunk => board'.positions[i].sunk
               /\ Len(board'.positions[i].cells) = Len(board.positions[i].cells)
               /\ \A k \in DOMAIN board.positions[i].cells :
                    board.positions[i].cells[k].hit
                      => board'.positions[i].cells[k].hit
          /\ ViewTypes(board.positions) \subseteq ViewTypes(board'.positions)]_vars

\* C19 witness: an opponent view that reveals a ship, taken after the board
\* was struck again once that ship was sunk.
C19_Witness ==
  /\ op = "toOpponentJSON"
  /\ RevealedTypes(ret) = {"Destroyer"}
  /\ HitCount(board.positions) > ShipSize["Destroyer"]

\* C20: on a board with non-overlapping ships, once determineAttackResult
\* has been called on every cell of every ship since the board was set,
\* every ship is sunk and the opponent view reveals them all.
C20_AllCellsStruckSinksAll ==
  (NonOverlapping(board.positions) /\ ShipCells(board.positions) \subseteq struck)
    => /\ \A i \in Ships : board.positions[i].sunk
       /\ ViewTypes(board.positions)
            = {board.positions[i].type : i \in Ships}

\* C20 witness: the attack on the last cell of a board with ships apart.
C20_Witness ==
  /\ op = "determineAttackResult"
  /\ NonOverlapping(board.positions)
  /\ ShipCells(board.positions) \subseteq struck
  /\ ViewTypes(board.positions) = ShipTypes

\* C20, its second half: with ships that share a cell, every cell can have
\* been struck while a ship is still afloat. This state is reachable.
C20_SharedCellLeavesShipAfloat ==
  /\ ~NonOverlapping(board.positions)
  /\ ShipCells(board.positions) \subseteq struck
  /\ \E i \in Ships : ~board.positions[i].sunk

====
